---- MODULE Spec2Model ----
(***************************************************************************)
(* Model of the node-weight cache (NodeWeightCache) and of the endpoints   *)
(* translator (EndpointsTranslator) of contour's internal/contour package. *)
(*                                                                         *)
(* NodeWeightCache is translated from its source.  The translator's own    *)
(* source file is not part of the source tree at hand (only its tests      *)
(* are), so its Recompute algorithm is written down from sections 3 and    *)
(* 4.1 of the specification and from what the tests exercise.              *)
(***************************************************************************)
EXTENDS Integers, Sequences, FiniteSets, TLC

VARIABLES
    nodeWeights,                \* NodeWeightCache.nodeWeights: node name -> weight
    nodeWeightsChangedHandler,  \* NodeWeightCache.nodeWeightsChangedHandler (Nil or an observer)
    DefaultNodeWeight,          \* NodeWeightCache.DefaultNodeWeight (configuration)
    fired,                      \* the observers invoked by the last handler call, in order
    registered,                 \* the observers RegisterOnNodeWeightsChanged was ever called with
    observed,                   \* the store as each observer invoked by the last handler call
                                \* found it when it ran
    providerWeights,            \* NodeWeightProvider.nodeWeights (node.go), where a
                                \* specification runs it beside NodeWeightCache
    watched,                    \* the watch layer's own store, where a specification keeps
                                \* one: the latest version delivered of every live object
    ExcludeNamespaceFromServiceName,  \* EndpointsTranslator's naming mode
    endpoints,                  \* translator: (namespace, name) -> the Endpoints last derived from
    cache,                      \* translator: cluster name -> set of LbEndpoint
    preCache,                   \* cache as it was before the last handler call
    preNodeWeights,             \* nodeWeights as it was before the last handler call
    beforeAdd,                  \* set by an OnDelete(e) that directly follows OnAdd(e):
                                \* the cache as it was before that OnAdd
    ev,                         \* the last handler call and its arguments
    nwWriter,                   \* the goroutine delivering node events: the handler it is in
    nwReader,                   \* the serving goroutine: the GetNodeWeight call it is in
    mu,                         \* translator: the holder of the cache's lock, or "free"
    pending,                    \* translator: the recompute in progress, keys still to rebuild
    seen                        \* the serving goroutine: what its last Contents() returned

nodeVars == <<nodeWeights, nodeWeightsChangedHandler, DefaultNodeWeight, fired,
              registered, observed>>

NothingWatched == [nodes |-> << >>, endpoints |-> << >>]

translatorVars == <<ExcludeNamespaceFromServiceName, endpoints, cache>>

\* the goroutines' positions
concVars == <<nwWriter, nwReader, mu, pending, seen>>

vars == <<nodeVars, translatorVars, preCache, preNodeWeights, beforeAdd, ev, concVars,
          watched, providerWeights>>

\* a nil string pointer or a nil func
Nil == "nil"

\* a nil object
NilObj == [kind |-> "nil"]

NoAddBefore == [valid |-> FALSE, cache |-> << >>]

\* no handler is running
IdleWriter == [pc |-> "idle", op |-> "none", old |-> NilObj, new |-> NilObj]

\* no GetNodeWeight call is running; got holds the last call's result
IdleReader == [pc |-> "idle", name |-> Nil, raced |-> FALSE, got |-> {}]

\* no recompute is in progress
NoPending ==
    [active |-> FALSE, op |-> "none", old |-> NilObj, new |-> NilObj, todo |-> {},
     records |-> << >>, cache |-> << >>]

\* no Contents() call has returned yet
NothingSeen == [taken |-> FALSE, cache |-> << >>, partial |-> FALSE]

\* every goroutine is outside the caches
InitConc ==
    /\ nwWriter = IdleWriter
    /\ nwReader = IdleReader
    /\ mu = "free"
    /\ pending = NoPending
    /\ seen = NothingSeen

(***************************************************************************)
(* Bounds and input domains.                                               *)
(***************************************************************************)
NumNodes == 2

NodeNames == {"node1", "node2", "node3", "node4"}

NodeNamesUsed ==
    {n \in NodeNames :
        \/ n = "node1"
        \/ n = "node2" /\ NumNodes >= 2
        \/ n = "node3" /\ NumNodes >= 3
        \/ n = "node4" /\ NumNodes >= 4}

\* the observers a caller may register
Handlers == {"A", "B"}

\* NodeWeightCache.NodeWeightAnnotation, as the tests configure it
NodeWeightAnnotation == "weight-annotation"

OtherAnnotation == "not a weight-annotation"

\* annotation values are strings, held as sequences of characters
AnnotationStrings ==
    { <<"5">>, <<"1", "0">>, <<"1", "2", "9">>, <<"-", "1">>, <<"x", "5">> }

\* metav1.ObjectMeta.Annotations: a map from annotation key to string
AnnotationMaps ==
    {<< >>}
      \cup {(NodeWeightAnnotation :> s) : s \in AnnotationStrings}
      \cup {(OtherAnnotation :> <<"5">>)}

\* *v1.Node
Node(name, annotations) ==
    [kind |-> "Node", name |-> name, annotations |-> annotations]

\* an object of another kind delivered to a node handler (*v1.Endpoints in the tests)
NotANode == [kind |-> "Endpoints", name |-> "node1", annotations |-> << >>]

\* _cache.DeletedFinalStateUnknown{Obj: obj}
Tombstone(obj) == [kind |-> "DeletedFinalStateUnknown", obj |-> obj]

NodeObjects == {Node(n, a) : n \in NodeNamesUsed, a \in AnnotationMaps}

\* the old object of an update: only its kind and name are read
OldNodeObjects == {Node(n, << >>) : n \in NodeNamesUsed}

DefaultWeights == {0, 1}

(***************************************************************************)
(* strconv.ParseInt(s, 10, 32)                                             *)
(***************************************************************************)
MaxInt32 == 2147483647

Digits == {"0", "1", "2", "3", "4", "5", "6", "7", "8", "9"}

DigitVal(c) ==
    CASE c = "0" -> 0 [] c = "1" -> 1 [] c = "2" -> 2 [] c = "3" -> 3
      [] c = "4" -> 4 [] c = "5" -> 5 [] c = "6" -> 6 [] c = "7" -> 7
      [] c = "8" -> 8 [] c = "9" -> 9

RECURSIVE ParseDigits(_, _)
ParseDigits(s, acc) ==
    IF s = << >> THEN acc
    ELSE ParseDigits(Tail(s), acc * 10 + DigitVal(Head(s)))

\* [err |-> TRUE] on a syntax or range error, else the value
ParseInt(s) ==
    IF s = << >> THEN [err |-> TRUE, val |-> 0]
    ELSE LET neg  == Head(s) = "-"
             body == IF Head(s) \in {"+", "-"} THEN Tail(s) ELSE s
         IN  IF body = << >> \/ \E i \in 1..Len(body) : body[i] \notin Digits
             THEN [err |-> TRUE, val |-> 0]
             ELSE LET v  == ParseDigits(body, 0)
                      sv == IF neg THEN 0 - v ELSE v
                  IN  IF sv > MaxInt32 \/ sv < (0 - MaxInt32) - 1
                      THEN [err |-> TRUE, val |-> 0]
                      ELSE [err |-> FALSE, val |-> sv]

(***************************************************************************)
(* Weight resolution                                                       *)
(***************************************************************************)
MaxWeight == 128

\* normalizeWeight with the bounds of the range left out of it
normalizeWeightExclusive(weight, defaultWeight) ==
    IF weight <= 0 \/ weight >= MaxWeight THEN defaultWeight ELSE weight

\* normalizeWeight without the upper bound
normalizeWeightNoUpperBound(weight, defaultWeight) ==
    IF weight < 0 THEN defaultWeight ELSE weight

normalizeWeight(weight, defaultWeight) ==
    IF weight < 0 \/ weight > MaxWeight THEN defaultWeight ELSE weight

getIntAnnotation(annotations, name, defaultValue) ==
    IF name \in DOMAIN annotations
    THEN LET p == ParseInt(annotations[name])
         IN  IF p.err THEN defaultValue ELSE p.val
    ELSE defaultValue

getWeightFromAnnotation(annotations, annotationName, defaultWeight) ==
    normalizeWeight(getIntAnnotation(annotations, annotationName, defaultWeight),
                    defaultWeight)

(***************************************************************************)
(* NodeWeightCache                                                         *)
(***************************************************************************)
\* a Go map with key k set to v
MapSet(m, k, v) == [x \in DOMAIN m \cup {k} |-> IF x = k THEN v ELSE m[x]]

\* delete(m, k)
MapDelete(m, k) == [x \in DOMAIN m \ {k} |-> m[x]]

\* GetNodeWeight returning the map's zero value for a name that is not tracked
GetNodeWeightInZero(weights, defaultWeight, nodeName) ==
    IF nodeName = Nil THEN defaultWeight
    ELSE IF nodeName \in DOMAIN weights THEN weights[nodeName] ELSE 0

\* nodeName is Nil for a nil *string
GetNodeWeightIn(weights, defaultWeight, nodeName) ==
    IF nodeName # Nil /\ nodeName \in DOMAIN weights
    THEN weights[nodeName]
    ELSE defaultWeight

GetNodeWeight(nodeName) ==
    GetNodeWeightIn(nodeWeights, DefaultNodeWeight, nodeName)

\* the observers one call of fireNodeWeightsChanged invokes
fireNodeWeightsChanged ==
    IF nodeWeightsChangedHandler # Nil THEN <<nodeWeightsChangedHandler>> ELSE << >>

\* the effect of a handler on the store and on the observer
NodeEffect(weights, calls) ==
    /\ nodeWeights' = weights
    /\ fired' = calls
    /\ observed' = [i \in DOMAIN calls |-> weights]

\* updateWeight as node.go's NodeWeightProvider has it: no notification
updateWeightSilent(old, new) ==
    IF old.name \in DOMAIN nodeWeights
    THEN NodeEffect(MapSet(nodeWeights, old.name,
                           getWeightFromAnnotation(new.annotations, NodeWeightAnnotation,
                                                   DefaultNodeWeight)),
                    << >>)
    ELSE NodeEffect(nodeWeights, << >>)

\* updateWeight keeping a stored weight when the new annotation gives none
updateWeightSticky(old, new) ==
    IF old.name \in DOMAIN nodeWeights
    THEN LET oldWeight == nodeWeights[old.name]
             newWeight == getWeightFromAnnotation(new.annotations, NodeWeightAnnotation,
                                                  DefaultNodeWeight)
         IN  IF oldWeight # newWeight /\ newWeight # DefaultNodeWeight
             THEN NodeEffect(MapSet(nodeWeights, old.name, newWeight), fireNodeWeightsChanged)
             ELSE NodeEffect(nodeWeights, << >>)
    ELSE NodeEffect(nodeWeights, << >>)

\* updateWeight tracking the node when it is not tracked yet, as setWeight does
updateWeightCreates(old, new) ==
    LET newWeight == getWeightFromAnnotation(new.annotations, NodeWeightAnnotation,
                                             DefaultNodeWeight)
    IN  IF old.name \notin DOMAIN nodeWeights \/ nodeWeights[old.name] # newWeight
        THEN NodeEffect(MapSet(nodeWeights, old.name, newWeight), fireNodeWeightsChanged)
        ELSE NodeEffect(nodeWeights, << >>)

\* updateWeight invoking the observer before it writes the new weight
updateWeightFiresFirst(old, new) ==
    IF old.name \in DOMAIN nodeWeights
    THEN LET oldWeight == nodeWeights[old.name]
             newWeight == getWeightFromAnnotation(new.annotations, NodeWeightAnnotation,
                                                  DefaultNodeWeight)
         IN  IF oldWeight # newWeight
             THEN /\ nodeWeights' = MapSet(nodeWeights, old.name, newWeight)
                  /\ fired' = fireNodeWeightsChanged
                  /\ observed' = [i \in DOMAIN fireNodeWeightsChanged |-> nodeWeights]
             ELSE NodeEffect(nodeWeights, << >>)
    ELSE NodeEffect(nodeWeights, << >>)

\* updateWeight storing under the new object's name
updateWeightUnderNewName(old, new) ==
    IF old.name \in DOMAIN nodeWeights
    THEN LET oldWeight == nodeWeights[old.name]
             newWeight == getWeightFromAnnotation(new.annotations, NodeWeightAnnotation,
                                                  DefaultNodeWeight)
         IN  IF oldWeight # newWeight
             THEN NodeEffect(MapSet(nodeWeights, new.name, newWeight), fireNodeWeightsChanged)
             ELSE NodeEffect(nodeWeights, << >>)
    ELSE NodeEffect(nodeWeights, << >>)

updateWeight(old, new) ==
    IF old.name \in DOMAIN nodeWeights
    THEN LET oldWeight == nodeWeights[old.name]
             newWeight == getWeightFromAnnotation(new.annotations, NodeWeightAnnotation,
                                                  DefaultNodeWeight)
         IN  IF oldWeight # newWeight
             THEN NodeEffect(MapSet(nodeWeights, old.name, newWeight), fireNodeWeightsChanged)
             ELSE NodeEffect(nodeWeights, << >>)
    ELSE NodeEffect(nodeWeights, << >>)

\* setWeight storing without notifying, as node.go's OnAdd does
setWeightSilent(node) ==
    NodeEffect(MapSet(nodeWeights, node.name,
                      getWeightFromAnnotation(node.annotations, NodeWeightAnnotation,
                                              DefaultNodeWeight)),
               << >>)

\* setWeight notifying on every call, changed or not
setWeightAlwaysFires(node) ==
    NodeEffect(MapSet(nodeWeights, node.name,
                      getWeightFromAnnotation(node.annotations, NodeWeightAnnotation,
                                              DefaultNodeWeight)),
               fireNodeWeightsChanged)

setWeight(node) ==
    LET ok        == node.name \in DOMAIN nodeWeights
        newWeight == getWeightFromAnnotation(node.annotations, NodeWeightAnnotation,
                                             DefaultNodeWeight)
    IN  IF ~ok \/ nodeWeights[node.name] # newWeight
        THEN NodeEffect(MapSet(nodeWeights, node.name, newWeight), fireNodeWeightsChanged)
        ELSE NodeEffect(nodeWeights, << >>)

\* RegisterOnNodeWeightsChanged keeping the observer registered first
RegisterOnNodeWeightsChangedOnce(handler) ==
    /\ nodeWeightsChangedHandler' = IF nodeWeightsChangedHandler = Nil
                                    THEN handler
                                    ELSE nodeWeightsChangedHandler
    /\ registered' = registered \cup {handler}
    /\ fired' = << >>
    /\ observed' = << >>
    /\ ev' = [op |-> "Register", old |-> NilObj, new |-> NilObj]
    /\ preCache' = cache
    /\ preNodeWeights' = nodeWeights
    /\ UNCHANGED <<concVars, watched, providerWeights>>
    /\ beforeAdd' = NoAddBefore
    /\ UNCHANGED <<nodeWeights, DefaultNodeWeight, translatorVars>>

RegisterOnNodeWeightsChanged(handler) ==
    /\ nodeWeightsChangedHandler' = handler
    /\ registered' = registered \cup {handler}
    /\ fired' = << >>
    /\ observed' = << >>
    /\ ev' = [op |-> "Register", old |-> NilObj, new |-> NilObj]
    /\ preCache' = cache
    /\ preNodeWeights' = nodeWeights
    /\ UNCHANGED <<concVars, watched, providerWeights>>
    /\ beforeAdd' = NoAddBefore
    /\ UNCHANGED <<nodeWeights, DefaultNodeWeight, translatorVars>>

\* OnAdd without the type switch: whatever has a name is stored
NodeOnAddAnyKind(obj) ==
    /\ setWeight(obj)
    /\ ev' = [op |-> "NodeOnAdd", old |-> NilObj, new |-> obj]
    /\ preCache' = cache
    /\ preNodeWeights' = nodeWeights
    /\ UNCHANGED <<concVars, watched, providerWeights>>
    /\ beforeAdd' = NoAddBefore
    /\ UNCHANGED <<nodeWeightsChangedHandler, registered, DefaultNodeWeight, translatorVars>>

NodeOnAdd(obj) ==
    /\ IF obj.kind = "Node"
       THEN setWeight(obj)
       ELSE NodeEffect(nodeWeights, << >>)
    /\ ev' = [op |-> "NodeOnAdd", old |-> NilObj, new |-> obj]
    /\ preCache' = cache
    /\ preNodeWeights' = nodeWeights
    /\ UNCHANGED <<concVars, watched, providerWeights>>
    /\ beforeAdd' = NoAddBefore
    /\ UNCHANGED <<nodeWeightsChangedHandler, registered, DefaultNodeWeight, translatorVars>>

NodeOnUpdate(oldObj, newObj) ==
    /\ IF newObj.kind = "Node" /\ oldObj.kind = "Node"
       THEN updateWeight(oldObj, newObj)
       ELSE NodeEffect(nodeWeights, << >>)
    /\ ev' = [op |-> "NodeOnUpdate", old |-> oldObj, new |-> newObj]
    /\ preCache' = cache
    /\ preNodeWeights' = nodeWeights
    /\ UNCHANGED <<concVars, watched, providerWeights>>
    /\ beforeAdd' = NoAddBefore
    /\ UNCHANGED <<nodeWeightsChangedHandler, registered, DefaultNodeWeight, translatorVars>>

\* OnDelete without the DeletedFinalStateUnknown case: a wrapper stays wrapped
UntombedNot(obj) == obj

\* the object OnDelete ends up deleting, after unwrapping tombstones
RECURSIVE Untombed(_)
Untombed(obj) ==
    IF obj.kind = "DeletedFinalStateUnknown" THEN Untombed(obj.obj) ELSE obj

\* OnDelete notifying the observer after the delete
NodeOnDeleteFires(obj) ==
    /\ LET o == Untombed(obj)
       IN  IF o.kind = "Node"
           THEN NodeEffect(MapDelete(nodeWeights, o.name), fireNodeWeightsChanged)
           ELSE NodeEffect(nodeWeights, << >>)
    /\ ev' = [op |-> "NodeOnDelete", old |-> obj, new |-> NilObj]
    /\ preCache' = cache
    /\ preNodeWeights' = nodeWeights
    /\ UNCHANGED <<concVars, watched, providerWeights>>
    /\ beforeAdd' = NoAddBefore
    /\ UNCHANGED <<nodeWeightsChangedHandler, registered, DefaultNodeWeight, translatorVars>>

\* the type switch of OnDelete: what it does to the store and the observer
NodeOnDeleteEffect(obj) ==
    LET o == Untombed(obj)
    IN  IF o.kind = "Node"
        THEN NodeEffect(MapDelete(nodeWeights, o.name), << >>)
        ELSE NodeEffect(nodeWeights, << >>)

\* OnDelete discarding what the translator has cached
NodeOnDeleteFlushes(obj) ==
    /\ NodeOnDeleteEffect(obj)
    /\ cache' = << >>
    /\ ev' = [op |-> "NodeOnDelete", old |-> obj, new |-> NilObj]
    /\ preCache' = cache
    /\ preNodeWeights' = nodeWeights
    /\ UNCHANGED <<concVars, watched, providerWeights>>
    /\ beforeAdd' = NoAddBefore
    /\ UNCHANGED <<nodeWeightsChangedHandler, registered, DefaultNodeWeight,
                   ExcludeNamespaceFromServiceName, endpoints>>

NodeOnDelete(obj) ==
    /\ NodeOnDeleteEffect(obj)
    /\ ev' = [op |-> "NodeOnDelete", old |-> obj, new |-> NilObj]
    /\ preCache' = cache
    /\ preNodeWeights' = nodeWeights
    /\ UNCHANGED <<concVars, watched, providerWeights>>
    /\ beforeAdd' = NoAddBefore
    /\ UNCHANGED <<nodeWeightsChangedHandler, registered, DefaultNodeWeight, translatorVars>>

(***************************************************************************)
(* Endpoints objects                                                       *)
(***************************************************************************)
\* v1.EndpointAddress{IP, NodeName}; nodeName is Nil when the pointer is nil
address(ip, nodeName) == [ip |-> ip, nodeName |-> nodeName]

\* v1.EndpointPort{Name, Port}
port(portValue, name) == [name |-> name, port |-> portValue]

\* v1.EndpointSubset
Subset(addrs, ports) == [addresses |-> addrs, ports |-> ports]

\* *v1.Endpoints
eps(ns, name, subsets) ==
    [kind |-> "Endpoints", namespace |-> ns, name |-> name, subsets |-> subsets]

\* the subsets the modelled events carry
NoSubsets == << >>

\* a subset whose addresses are all gone: zero addresses in total
EmptySubsets ==
    << Subset(<< >>, <<port(8080, "")>>) >>

SimpleSubsets ==
    << Subset(<<address("192.168.183.24", "node1")>>, <<port(8080, "")>>) >>

OtherSubsets ==
    << Subset(<<address("192.168.183.25", Nil)>>, <<port(8080, "")>>) >>

\* TestAddEndpointComplicated: two named ports over three subsets
ComplicatedSubsets ==
    << Subset(<<address("192.168.183.24", "node1")>>, <<port(9999, "foo")>>),
       Subset(<<address("192.168.183.25", Nil)>>, <<port(8080, "foo")>>),
       Subset(<<address("192.168.183.24", "node1"), address("192.168.183.25", Nil)>>,
              <<port(9000, "admin")>>) >>

\* two named ports, the second in a subset that holds no (ready) address
NotReadySubsets ==
    << Subset(<<address("192.168.183.24", "node1")>>, <<port(8080, "http")>>),
       Subset(<< >>, <<port(8443, "https")>>) >>

Identity(ep) == <<ep.namespace, ep.name>>

\* the Endpoints objects the modelled events carry: staging/simple in every
\* shape, prod/simple sharing its name (and, in its second shape, its port
\* names), staging/different sharing nothing
EndpointsObjects ==
    {eps("staging", "simple", ss) :
        ss \in {NoSubsets, EmptySubsets, SimpleSubsets, OtherSubsets, ComplicatedSubsets,
                NotReadySubsets}}
      \cup {eps("prod", "simple", ss) : ss \in {OtherSubsets, ComplicatedSubsets}}
      \cup {eps("staging", "different", ss) : ss \in {SimpleSubsets}}

\* (namespace, name) of those objects
Identities == {Identity(ep) : ep \in EndpointsObjects}

Range(seq) == {seq[i] : i \in DOMAIN seq}

\* the number of addresses over all subsets
TotalAddresses(ep) ==
    Cardinality({<<i, j>> \in (DOMAIN ep.subsets) \X (1..2) :
                    j \in DOMAIN ep.subsets[i].addresses})

(***************************************************************************)
(* Naming and grouping (specification, sections 3 and 4.1)                 *)
(*                                                                         *)
(* A cluster name is held as the sequence of its "/"-separated segments:   *)
(* <<"default", "kuard", "foo">> is "default/kuard/foo".                   *)
(***************************************************************************)
\* servicename ignoring the port name
servicenameWithoutPort(excludeNamespace, ep, portname) ==
    IF excludeNamespace THEN <<ep.name>> ELSE <<ep.namespace, ep.name>>

\* the cluster name of a port of a service
servicename(excludeNamespace, ep, portname) ==
    (IF excludeNamespace THEN <<ep.name>> ELSE <<ep.namespace, ep.name>>)
      \o (IF portname = "" THEN << >> ELSE <<portname>>)

\* the distinct port names across all subsets
PortNames(ep) ==
    UNION { {p.name : p \in Range(s.ports)} : s \in Range(ep.subsets) }

\* the port names that name a key
KeyPortNames(ep) ==
    IF PortNames(ep) = {""} THEN {""} ELSE PortNames(ep) \ {""}

\* the cluster names an Endpoints object maps to
Keys(excludeNamespace, ep) ==
    IF ep = NilObj THEN {}
    ELSE {servicename(excludeNamespace, ep, n) : n \in KeyPortNames(ep)}

\* lbendpoint carrying the weight field whatever the weight
lbendpointExplicit(addr, portValue, weight) ==
    [address |-> addr, port |-> portValue, loadBalancingWeight |-> {weight}]

\* endpoint.LbEndpoint.  The optional LoadBalancingWeight field is held as a
\* set: {} when the field is absent, {w} when it carries w
lbendpoint(addr, portValue, weight) ==
    [address |-> addr, port |-> portValue,
     loadBalancingWeight |-> IF weight # 1 THEN {weight} ELSE {}]

\* the members an Endpoints object contributes to a cluster name
Contribution(excludeNamespace, weights, defaultWeight, ep, key) ==
    IF key \notin Keys(excludeNamespace, ep) THEN {}
    ELSE UNION { { lbendpoint(a.ip, p.port, GetNodeWeightIn(weights, defaultWeight, a.nodeName)) :
                     a \in Range(s.addresses),
                     p \in {q \in Range(s.ports) :
                              servicename(excludeNamespace, ep, q.name) = key} } :
                 s \in Range(ep.subsets) }

\* the member list of a cluster name, rebuilt from every source record mapped to it
Members(excludeNamespace, weights, defaultWeight, records, key) ==
    UNION { Contribution(excludeNamespace, weights, defaultWeight, records[id], key) :
              id \in DOMAIN records }

(***************************************************************************)
(* EndpointsTranslator (specification, section 4.1)                        *)
(***************************************************************************)
\* step 2 leaving the record of a deleted object behind
RecomputeRecordsKeepsDeleted(records, old, new) ==
    IF new # NilObj THEN MapSet(records, Identity(new), new) ELSE records

\* step 2: the source records after the event
RecomputeRecords(records, old, new) ==
    IF new # NilObj
    THEN MapSet(records, Identity(new), new)
    ELSE MapDelete(records, Identity(old))

\* step 4 storing a rebuilt key even when it has no member
RecomputeCacheKeepsEmpty(excludeNamespace, weights, defaultWeight, records, cch, old, new) ==
    LET implicated == Keys(excludeNamespace, old) \cup Keys(excludeNamespace, new)
        records2   == RecomputeRecords(records, old, new)
        rebuilt(k) == Members(excludeNamespace, weights, defaultWeight, records2, k)
    IN  [k \in DOMAIN cch \cup implicated |->
            IF k \in implicated THEN rebuilt(k) ELSE cch[k]]

\* step 3 rebuilding a key from the event's own object alone
RecomputeCacheOwnOnly(excludeNamespace, weights, defaultWeight, records, cch, old, new) ==
    LET implicated == Keys(excludeNamespace, old) \cup Keys(excludeNamespace, new)
        rebuilt(k) == IF new = NilObj THEN {}
                      ELSE Contribution(excludeNamespace, weights, defaultWeight, new, k)
        kept       == (DOMAIN cch \ implicated) \cup {k \in implicated : rebuilt(k) # {}}
    IN  [k \in kept |-> IF k \in implicated THEN rebuilt(k) ELSE cch[k]]

\* step 3 rebuilding every cached key, implicated or not
RecomputeCacheRebuildsAll(excludeNamespace, weights, defaultWeight, records, cch, old, new) ==
    LET implicated == Keys(excludeNamespace, old) \cup Keys(excludeNamespace, new)
        records2   == RecomputeRecords(records, old, new)
        rebuilt(k) == Members(excludeNamespace, weights, defaultWeight, records2, k)
        kept       == {k \in DOMAIN cch \cup implicated : rebuilt(k) # {}}
    IN  [k \in kept |-> rebuilt(k)]

\* step 3 adding the new object's members to the cached ones of a key
\* instead of rebuilding the key from scratch
RecomputeCacheAppends(excludeNamespace, weights, defaultWeight, records, cch, old, new) ==
    LET implicated == Keys(excludeNamespace, old) \cup Keys(excludeNamespace, new)
        records2   == RecomputeRecords(records, old, new)
        cached(k)  == IF k \in DOMAIN cch THEN cch[k] ELSE {}
        rebuilt(k) == IF new = NilObj
                      THEN Members(excludeNamespace, weights, defaultWeight, records2, k)
                      ELSE cached(k)
                             \cup Contribution(excludeNamespace, weights, defaultWeight, new, k)
        kept       == (DOMAIN cch \ implicated) \cup {k \in implicated : rebuilt(k) # {}}
    IN  [k \in kept |-> IF k \in implicated THEN rebuilt(k) ELSE cch[k]]

\* steps 1, 3 and 4: the cache after the event
RecomputeCache(excludeNamespace, weights, defaultWeight, records, cch, old, new) ==
    LET implicated == Keys(excludeNamespace, old) \cup Keys(excludeNamespace, new)
        records2   == RecomputeRecords(records, old, new)
        rebuilt(k) == Members(excludeNamespace, weights, defaultWeight, records2, k)
        kept       == (DOMAIN cch \ implicated) \cup {k \in implicated : rebuilt(k) # {}}
    IN  [k \in kept |-> IF k \in implicated THEN rebuilt(k) ELSE cch[k]]

recomputeClusterLoadAssignment(old, new) ==
    /\ endpoints' = RecomputeRecords(endpoints, old, new)
    /\ cache' = RecomputeCache(ExcludeNamespaceFromServiceName, nodeWeights,
                               DefaultNodeWeight, endpoints, cache, old, new)

\* Contents(): the cached ClusterLoadAssignments
Contents == {[clusterName |-> k, lbEndpoints |-> cache[k]] : k \in DOMAIN cache}

\* an object of another kind is logged and dropped
EpOnAdd(ep) ==
    /\ IF ep.kind = "Endpoints"
       THEN recomputeClusterLoadAssignment(NilObj, ep)
       ELSE UNCHANGED <<endpoints, cache>>
    /\ ev' = [op |-> "EpOnAdd", old |-> NilObj, new |-> ep]
    /\ preCache' = cache
    /\ preNodeWeights' = nodeWeights
    /\ UNCHANGED <<concVars, watched, providerWeights>>
    /\ beforeAdd' = NoAddBefore
    /\ fired' = << >>
    /\ observed' = << >>
    /\ UNCHANGED <<nodeWeights, nodeWeightsChangedHandler, registered, DefaultNodeWeight,
                   ExcludeNamespaceFromServiceName>>

EpOnUpdate(old, new) ==
    /\ IF new.kind = "Endpoints" /\ old.kind = "Endpoints"
       THEN recomputeClusterLoadAssignment(old, new)
       ELSE UNCHANGED <<endpoints, cache>>
    /\ ev' = [op |-> "EpOnUpdate", old |-> old, new |-> new]
    /\ preCache' = cache
    /\ preNodeWeights' = nodeWeights
    /\ UNCHANGED <<concVars, watched, providerWeights>>
    /\ beforeAdd' = NoAddBefore
    /\ fired' = << >>
    /\ observed' = << >>
    /\ UNCHANGED <<nodeWeights, nodeWeightsChangedHandler, registered, DefaultNodeWeight,
                   ExcludeNamespaceFromServiceName>>

\* OnDelete dropping the object's cluster names from the cache itself instead
\* of going through the recompute
EpOnDeleteDropsKeys(ep) ==
    /\ IF ep.kind = "Endpoints"
       THEN /\ endpoints' = RecomputeRecords(endpoints, ep, NilObj)
            /\ cache' = [k \in DOMAIN cache \ Keys(ExcludeNamespaceFromServiceName, ep)
                            |-> cache[k]]
       ELSE UNCHANGED <<endpoints, cache>>
    /\ ev' = [op |-> "EpOnDelete", old |-> ep, new |-> NilObj]
    /\ preCache' = cache
    /\ preNodeWeights' = nodeWeights
    /\ UNCHANGED <<concVars, watched, providerWeights>>
    /\ beforeAdd' = IF ev.op = "EpOnAdd" /\ ev.new = ep
                    THEN [valid |-> TRUE, cache |-> preCache]
                    ELSE NoAddBefore
    /\ fired' = << >>
    /\ observed' = << >>
    /\ UNCHANGED <<nodeWeights, nodeWeightsChangedHandler, registered, DefaultNodeWeight,
                   ExcludeNamespaceFromServiceName>>

EpOnDelete(ep) ==
    /\ IF ep.kind = "Endpoints"
       THEN recomputeClusterLoadAssignment(ep, NilObj)
       ELSE UNCHANGED <<endpoints, cache>>
    /\ ev' = [op |-> "EpOnDelete", old |-> ep, new |-> NilObj]
    /\ preCache' = cache
    /\ preNodeWeights' = nodeWeights
    /\ UNCHANGED <<concVars, watched, providerWeights>>
    /\ beforeAdd' = IF ev.op = "EpOnAdd" /\ ev.new = ep
                    THEN [valid |-> TRUE, cache |-> preCache]
                    ELSE NoAddBefore
    /\ fired' = << >>
    /\ observed' = << >>
    /\ UNCHANGED <<nodeWeights, nodeWeightsChangedHandler, registered, DefaultNodeWeight,
                   ExcludeNamespaceFromServiceName>>

(***************************************************************************)
(* Specification of the node-weight cache alone                            *)
(***************************************************************************)
InitNode ==
    /\ nodeWeights = << >>
    /\ nodeWeightsChangedHandler = Nil
    /\ DefaultNodeWeight \in DefaultWeights
    /\ fired = << >>
    /\ registered = {}
    /\ observed = << >>
    /\ ExcludeNamespaceFromServiceName = FALSE
    /\ endpoints = << >>
    /\ cache = << >>
    /\ preCache = << >>
    /\ preNodeWeights = << >>
    /\ beforeAdd = NoAddBefore
    /\ ev = [op |-> "New", old |-> NilObj, new |-> NilObj]
    /\ InitConc
    /\ watched = NothingWatched
    /\ providerWeights = << >>

NextNode ==
    \/ \E h \in Handlers : RegisterOnNodeWeightsChanged(h)
    \/ \E obj \in NodeObjects \cup {NotANode} : NodeOnAdd(obj)
    \/ \E old \in OldNodeObjects \cup {NotANode}, new \in NodeObjects \cup {NotANode} :
          NodeOnUpdate(old, new)
    \/ \E obj \in OldNodeObjects \cup {NotANode}
                    \cup {Tombstone(o) : o \in OldNodeObjects \cup {NotANode}} :
          NodeOnDelete(obj)

SpecNode == InitNode /\ [][NextNode]_vars

(***************************************************************************)
(* Specification of the weight resolution: one node, annotated with the    *)
(* decimal form of integers around the bounds of the accepted range, with  *)
(* strings that are no integers, or not annotated.                         *)
(***************************************************************************)
\* the integers the annotations spell out
ClampValues == {0 - 1, 0, 1, 5, 127, 128, 129, 10000, MaxInt32}

DigitChar(d) ==
    CASE d = 0 -> "0" [] d = 1 -> "1" [] d = 2 -> "2" [] d = 3 -> "3"
      [] d = 4 -> "4" [] d = 5 -> "5" [] d = 6 -> "6" [] d = 7 -> "7"
      [] d = 8 -> "8" [] d = 9 -> "9"

\* the decimal digits of a natural number
RECURSIVE DecimalDigits(_)
DecimalDigits(n) ==
    IF n < 10 THEN <<DigitChar(n)>>
    ELSE Append(DecimalDigits(n \div 10), DigitChar(n % 10))

\* strconv.Itoa: the annotation text of an integer
Decimal(n) == IF n < 0 THEN <<"-">> \o DecimalDigits(0 - n) ELSE DecimalDigits(n)

\* annotation texts that are not integers
UnparsableStrings == { <<"x", "5">>, << >>, <<"5", "x">>, <<"1", ".", "5">> }

ClampAnnotationMaps ==
    {<< >>}
      \cup {(NodeWeightAnnotation :> Decimal(n)) : n \in ClampValues}
      \cup {(NodeWeightAnnotation :> t) : t \in UnparsableStrings}
      \cup {(OtherAnnotation :> <<"5">>)}

ClampNodes == {Node("node1", a) : a \in ClampAnnotationMaps}

NextClamp ==
    \/ \E h \in Handlers : RegisterOnNodeWeightsChanged(h)
    \/ \E obj \in ClampNodes : NodeOnAdd(obj)
    \/ \E new \in ClampNodes : NodeOnUpdate(Node("node1", << >>), new)
    \/ NodeOnDelete(Node("node1", << >>))

SpecClamp == InitNode /\ [][NextClamp]_vars

(***************************************************************************)
(* Specification of the translator fed by the watch layer, with the node   *)
(* events of one node interleaved.                                         *)
(*                                                                         *)
(* Endpoints events follow the informer's contract: an object is added     *)
(* when it is not tracked, updated from the version last delivered, and    *)
(* deleted with that version; a delete may also name an object that is not *)
(* tracked (TestEndpointsTranslatorRemoveEndpoints).                       *)
(***************************************************************************)
\* the node events of this specification: node1, annotated "5" or not at all
WeightedNodes ==
    {Node("node1", << >>), Node("node1", (NodeWeightAnnotation :> <<"5">>))}

Init ==
    /\ nodeWeights = << >>
    /\ nodeWeightsChangedHandler = Nil
    /\ DefaultNodeWeight = 1
    /\ fired = << >>
    /\ registered = {}
    /\ observed = << >>
    /\ ExcludeNamespaceFromServiceName \in BOOLEAN
    /\ endpoints = << >>
    /\ cache = << >>
    /\ preCache = << >>
    /\ preNodeWeights = << >>
    /\ beforeAdd = NoAddBefore
    /\ ev = [op |-> "New", old |-> NilObj, new |-> NilObj]
    /\ InitConc
    /\ watched = NothingWatched
    /\ providerWeights = << >>

Next ==
    \/ \E ep \in EndpointsObjects :
          /\ Identity(ep) \notin DOMAIN endpoints
          /\ EpOnAdd(ep)
    \/ \E new \in EndpointsObjects :
          /\ Identity(new) \in DOMAIN endpoints
          /\ EpOnUpdate(endpoints[Identity(new)], new)
    \/ \E ep \in EndpointsObjects :
          /\ Identity(ep) \in DOMAIN endpoints => ep = endpoints[Identity(ep)]
          /\ EpOnDelete(ep)
    \/ \E obj \in WeightedNodes : NodeOnAdd(obj)
    \/ \E old \in WeightedNodes, new \in WeightedNodes : NodeOnUpdate(old, new)
    \/ \E obj \in WeightedNodes : NodeOnDelete(obj)

Spec == Init /\ [][Next]_vars

(***************************************************************************)
(* Specification of both caches fed with objects of every kind: the events *)
(* of Spec over fewer objects, an observer, and handlers given objects of  *)
(* a kind they do not expect.                                              *)
(***************************************************************************)
\* an object of another kind delivered to an Endpoints handler
NotAnEndpoints == Node("node1", << >>)

KindsEndpoints ==
    {eps("staging", "simple", NoSubsets), eps("staging", "simple", SimpleSubsets),
     eps("prod", "simple", OtherSubsets)}

NextKinds ==
    \/ \E h \in Handlers : RegisterOnNodeWeightsChanged(h)
    \/ \E obj \in WeightedNodes \cup {NotANode} : NodeOnAdd(obj)
    \/ \E old \in WeightedNodes \cup {NotANode}, new \in WeightedNodes \cup {NotANode} :
          NodeOnUpdate(old, new)
    \/ \E obj \in WeightedNodes \cup {NotANode, Tombstone(NotANode)} : NodeOnDelete(obj)
    \/ \E ep \in KindsEndpoints :
          /\ Identity(ep) \notin DOMAIN endpoints
          /\ EpOnAdd(ep)
    \/ EpOnAdd(NotAnEndpoints)
    \/ \E new \in KindsEndpoints :
          /\ Identity(new) \in DOMAIN endpoints
          /\ \/ EpOnUpdate(endpoints[Identity(new)], new)
             \/ EpOnUpdate(NotAnEndpoints, new)
             \/ EpOnUpdate(endpoints[Identity(new)], NotAnEndpoints)
    \/ \E ep \in KindsEndpoints :
          /\ Identity(ep) \in DOMAIN endpoints
          /\ EpOnDelete(endpoints[Identity(ep)])
    \/ EpOnDelete(NotAnEndpoints)

SpecKinds == Init /\ [][NextKinds]_vars

(***************************************************************************)
(* Specification of NodeWeightCache used by two goroutines: the one that   *)
(* delivers node events, and a serving one that calls GetNodeWeight.       *)
(* NodeWeightCache holds no lock, so nothing orders a handler's write of   *)
(* the nodeWeights map and a GetNodeWeight's read of it: a handler is two  *)
(* steps (up to its map write, then the write and the rest) and so is a    *)
(* GetNodeWeight (entering the map read, then returning).                  *)
(***************************************************************************)
\* the handler call writes the nodeWeights map
WritesMap(op, old, new) ==
    CASE op = "NodeOnAdd" ->
            \/ new.name \notin DOMAIN nodeWeights
            \/ nodeWeights[new.name] #
                  getWeightFromAnnotation(new.annotations, NodeWeightAnnotation,
                                          DefaultNodeWeight)
      [] op = "NodeOnUpdate" ->
            /\ old.name \in DOMAIN nodeWeights
            /\ nodeWeights[old.name] #
                  getWeightFromAnnotation(new.annotations, NodeWeightAnnotation,
                                          DefaultNodeWeight)
      [] op = "NodeOnDelete" -> Untombed(old).kind = "Node"

\* OnAdd, OnUpdate or OnDelete of a Node runs up to its write of the map, or,
\* when it has none, up to its return
HandlerBegin(op, old, new) ==
    /\ nwReader.pc # "fatal"
    /\ nwWriter.pc = "idle"
    /\ nwWriter' = [pc |-> IF WritesMap(op, old, new) THEN "writing" ELSE "running",
                    op |-> op, old |-> old, new |-> new]
    /\ nwReader' = IF nwReader.pc = "reading" /\ WritesMap(op, old, new)
                   THEN [nwReader EXCEPT !.raced = TRUE]
                   ELSE nwReader
    /\ UNCHANGED <<nodeVars, translatorVars, preCache, preNodeWeights, beforeAdd, ev,
                   mu, pending, seen,
                   watched, providerWeights>>

\* the handler writes the map, notifies and returns
HandlerEnd ==
    /\ nwReader.pc # "fatal"
    /\ nwWriter.pc \in {"writing", "running"}
    /\ CASE nwWriter.op = "NodeOnAdd" -> setWeight(nwWriter.new)
         [] nwWriter.op = "NodeOnUpdate" -> updateWeight(nwWriter.old, nwWriter.new)
         [] nwWriter.op = "NodeOnDelete" -> NodeOnDeleteEffect(nwWriter.old)
    /\ ev' = [op |-> nwWriter.op, old |-> nwWriter.old, new |-> nwWriter.new]
    /\ preCache' = cache
    /\ preNodeWeights' = nodeWeights
    /\ beforeAdd' = NoAddBefore
    /\ nwWriter' = IdleWriter
    /\ UNCHANGED <<nodeWeightsChangedHandler, registered, DefaultNodeWeight, translatorVars,
                   nwReader, mu, pending, seen,
                   watched, providerWeights>>

\* GetNodeWeight(nodeName) enters its read of the map
GetNodeWeightBegin(nodeName) ==
    /\ nwReader.pc = "idle"
    /\ nwReader' = [pc |-> "reading", name |-> nodeName,
                    raced |-> nwWriter.pc = "writing", got |-> {}]
    /\ UNCHANGED <<nodeVars, translatorVars, preCache, preNodeWeights, beforeAdd, ev,
                   nwWriter, mu, pending, seen,
                   watched, providerWeights>>

\* what a map read that overlapped a map write may do: the runtime ends the
\* process ("concurrent map read and map write"), or the read returns the
\* entry as it is now, or misses it
RacedOutcomes ==
    {[pc |-> "fatal", name |-> nwReader.name, raced |-> TRUE, got |-> {}]}
      \cup {[pc |-> "idle", name |-> nwReader.name, raced |-> TRUE, got |-> {v}] :
               v \in {GetNodeWeight(nwReader.name), DefaultNodeWeight}}

\* GetNodeWeight returns
GetNodeWeightEnd ==
    /\ nwReader.pc = "reading"
    /\ IF nwReader.raced
       THEN nwReader' \in RacedOutcomes
       ELSE nwReader' = [pc |-> "idle", name |-> nwReader.name, raced |-> FALSE,
                         got |-> {GetNodeWeight(nwReader.name)}]
    /\ UNCHANGED <<nodeVars, translatorVars, preCache, preNodeWeights, beforeAdd, ev,
                   nwWriter, mu, pending, seen,
                   watched, providerWeights>>

NextRace ==
    \/ \E obj \in WeightedNodes : HandlerBegin("NodeOnAdd", NilObj, obj)
    \/ \E old \in WeightedNodes, new \in WeightedNodes : HandlerBegin("NodeOnUpdate", old, new)
    \/ \E obj \in WeightedNodes \cup {Tombstone(o) : o \in WeightedNodes} :
          HandlerBegin("NodeOnDelete", obj, NilObj)
    \/ HandlerEnd
    \/ \E n \in {"node1", Nil} : GetNodeWeightBegin(n)
    \/ GetNodeWeightEnd

SpecRace == InitNode /\ [][NextRace]_vars

(***************************************************************************)
(* Specification of EndpointsTranslator used by two goroutines             *)
(* (specification, sections 4.1 and 5): the one that delivers Endpoints    *)
(* events, whose Recompute rebuilds the implicated keys one at a time, and *)
(* a serving one that calls Contents().  The cache is guarded by a lock:   *)
(* Recompute holds it from its first step to its last, Contents() holds it *)
(* while it copies the cache.                                              *)
(***************************************************************************)
ContentsEndpoints ==
    {eps("staging", "simple", ss) : ss \in {NoSubsets, SimpleSubsets, ComplicatedSubsets}}
      \cup {eps("prod", "simple", OtherSubsets)}

\* Recompute(old, new) takes the lock and does steps 1 and 2
RecomputeBegin(op, old, new) ==
    /\ mu = "free"
    /\ mu' = "recompute"
    /\ endpoints' = RecomputeRecords(endpoints, old, new)
    /\ pending' = [active |-> TRUE, op |-> op, old |-> old, new |-> new,
                   todo |-> Keys(ExcludeNamespaceFromServiceName, old)
                              \cup Keys(ExcludeNamespaceFromServiceName, new),
                   records |-> endpoints, cache |-> cache]
    /\ UNCHANGED <<nodeVars, ExcludeNamespaceFromServiceName, cache, preCache,
                   preNodeWeights, beforeAdd, ev, nwWriter, nwReader, seen,
                   watched, providerWeights>>

\* steps 3 and 4 for one implicated key
RebuildKey(k) ==
    /\ pending.active
    /\ k \in pending.todo
    /\ LET rebuilt == Members(ExcludeNamespaceFromServiceName, nodeWeights,
                              DefaultNodeWeight, endpoints, k)
       IN  cache' = IF rebuilt = {} THEN MapDelete(cache, k) ELSE MapSet(cache, k, rebuilt)
    /\ pending' = [pending EXCEPT !.todo = pending.todo \ {k}]
    /\ UNCHANGED <<nodeVars, ExcludeNamespaceFromServiceName, endpoints, preCache,
                   preNodeWeights, beforeAdd, ev, nwWriter, nwReader, mu, seen,
                   watched, providerWeights>>

\* every implicated key is rebuilt: Recompute releases the lock and returns
RecomputeEnd ==
    /\ pending.active
    /\ pending.todo = {}
    /\ mu' = "free"
    /\ pending' = NoPending
    /\ ev' = [op |-> pending.op, old |-> pending.old, new |-> pending.new]
    /\ preCache' = pending.cache
    /\ preNodeWeights' = nodeWeights
    /\ beforeAdd' = NoAddBefore
    /\ UNCHANGED <<nodeVars, translatorVars, nwWriter, nwReader, seen,
                   watched, providerWeights>>

\* the cache is neither as it was before the recompute in progress nor as the
\* recompute leaves it
PartlyRebuilt ==
    /\ pending.active
    /\ cache # pending.cache
    /\ cache # RecomputeCache(ExcludeNamespaceFromServiceName, nodeWeights,
                              DefaultNodeWeight, pending.records, pending.cache,
                              pending.old, pending.new)

\* Contents() copying the cache without taking the lock
ContentsUnlocked ==
    /\ seen' = [taken |-> TRUE, cache |-> cache, partial |-> PartlyRebuilt]
    /\ UNCHANGED <<nodeVars, translatorVars, preCache, preNodeWeights, beforeAdd, ev,
                   nwWriter, nwReader, mu, pending,
                   watched, providerWeights>>

\* Contents(): takes the lock, copies the cache, releases the lock
ContentsCall ==
    /\ mu = "free"
    /\ seen' = [taken |-> TRUE, cache |-> cache, partial |-> PartlyRebuilt]
    /\ UNCHANGED <<nodeVars, translatorVars, preCache, preNodeWeights, beforeAdd, ev,
                   nwWriter, nwReader, mu, pending,
                   watched, providerWeights>>

NextContents ==
    \/ \E ep \in ContentsEndpoints :
          /\ Identity(ep) \notin DOMAIN endpoints
          /\ RecomputeBegin("EpOnAdd", NilObj, ep)
    \/ \E new \in ContentsEndpoints :
          /\ Identity(new) \in DOMAIN endpoints
          /\ RecomputeBegin("EpOnUpdate", endpoints[Identity(new)], new)
    \/ \E id \in DOMAIN endpoints : RecomputeBegin("EpOnDelete", endpoints[id], NilObj)
    \/ \E k \in pending.todo : RebuildKey(k)
    \/ RecomputeEnd
    \/ ContentsCall

SpecContents == Init /\ [][NextContents]_vars

(***************************************************************************)
(* Claims about NodeWeightCache, checked under SpecNode                    *)
(***************************************************************************)
\* the weight a Node object resolves to
Resolved(node) ==
    getWeightFromAnnotation(node.annotations, NodeWeightAnnotation, DefaultNodeWeight)

IsNodeAdd == ev.op = "NodeOnAdd" /\ ev.new.kind = "Node"

IsNodeUpdate ==
    /\ ev.op = "NodeOnUpdate"
    /\ ev.old.kind = "Node"
    /\ ev.new.kind = "Node"
    /\ ev.old.name = ev.new.name

IsNodeDelete == ev.op = "NodeOnDelete" /\ ev.old.kind = "Node"

\* C3: OnUpdate(old, new) of a tracked node whose newly computed weight differs
\* from the stored one stores the new weight and invokes the registered
\* observer exactly once; when the weights are equal the store is unchanged
\* and the observer is not invoked.
C3_UpdateNotifiesOnceOnChange ==
    (IsNodeUpdate /\ ev.old.name \in DOMAIN preNodeWeights) =>
        IF Resolved(ev.new) # preNodeWeights[ev.old.name]
        THEN /\ nodeWeights = MapSet(preNodeWeights, ev.old.name, Resolved(ev.new))
             /\ nodeWeightsChangedHandler # Nil => fired = <<nodeWeightsChangedHandler>>
             /\ nodeWeightsChangedHandler = Nil => fired = << >>
        ELSE /\ nodeWeights = preNodeWeights
             /\ fired = << >>

C3_Witness ==
    /\ IsNodeUpdate
    /\ ev.old.name \in DOMAIN preNodeWeights
    /\ Resolved(ev.new) # preNodeWeights[ev.old.name]
    /\ nodeWeights[ev.old.name] = 5
    /\ fired = <<"A">>

\* C4 as stated: OnAdd(node) stores the weight computed from the annotation
\* under the node's name and never invokes the observer.
C4_AddNeverNotifies ==
    IsNodeAdd =>
        /\ nodeWeights = MapSet(preNodeWeights, ev.new.name, Resolved(ev.new))
        /\ fired = << >>

\* C4 as amended: OnAdd(node) stores the weight computed from the annotation
\* under the node's name; it invokes the registered observer exactly once
\* when the node was not tracked or its stored weight differed from the
\* computed one, and does not invoke it otherwise.
C4_AddStoresAndNotifiesOnChange ==
    IsNodeAdd =>
        /\ nodeWeights = MapSet(preNodeWeights, ev.new.name, Resolved(ev.new))
        /\ fired = IF /\ nodeWeightsChangedHandler # Nil
                      /\ \/ ev.new.name \notin DOMAIN preNodeWeights
                         \/ preNodeWeights[ev.new.name] # Resolved(ev.new)
                   THEN <<nodeWeightsChangedHandler>>
                   ELSE << >>

\* a registered observer, and a tracked node added again with the weight it has
C4_Witness ==
    /\ IsNodeAdd
    /\ nodeWeightsChangedHandler # Nil
    /\ ev.new.name \in DOMAIN preNodeWeights
    /\ preNodeWeights[ev.new.name] = Resolved(ev.new)
    /\ fired = << >>

\* C5: OnAdd of a Node that is not yet tracked invokes the registered
\* observer, whether the weight annotation is valid, out of range,
\* unparsable or missing.
C5_AddOfNewNodeNotifies ==
    (IsNodeAdd /\ ev.new.name \notin DOMAIN preNodeWeights
               /\ nodeWeightsChangedHandler # Nil) =>
        fired = <<nodeWeightsChangedHandler>>

\* a new node whose annotation does not parse, stored at the default weight
C5_Witness ==
    /\ IsNodeAdd
    /\ ev.new.name \notin DOMAIN preNodeWeights
    /\ ev.new.annotations = (NodeWeightAnnotation :> <<"x", "5">>)
    /\ nodeWeights[ev.new.name] = DefaultNodeWeight
    /\ fired = <<"A">>

C7_DeleteNotifies ==
    (/\ ev.op = "NodeOnDelete"
     /\ Untombed(ev.old).kind = "Node"
     /\ Untombed(ev.old).name \in DOMAIN preNodeWeights
     /\ nodeWeightsChangedHandler # Nil) =>
        /\ fired = <<nodeWeightsChangedHandler>>
        /\ GetNodeWeight(Untombed(ev.old).name) = DefaultNodeWeight

(***************************************************************************)
(* Claims about EndpointsTranslator, checked under Spec                    *)
(***************************************************************************)
IsEpEvent == ev.op \in {"EpOnAdd", "EpOnUpdate", "EpOnDelete"}

\* an OnAdd(e) or OnUpdate(old, e) has just processed e == ev.new
IsEpAddOrUpdate == ev.op \in {"EpOnAdd", "EpOnUpdate"}

\* the socket addresses of a member list
AddressesOf(members) == {<<m.address, m.port>> : m \in members}

\* the member list Contents() shows for a cluster name, if any
CacheAt(cch, k) == IF k \in DOMAIN cch THEN cch[k] ELSE {}

\* the cluster name k is derived from the (namespace, name) id
DerivedFrom(k, id) ==
    IF ExcludeNamespaceFromServiceName
    THEN k[1] = id[2]
    ELSE Len(k) >= 2 /\ k[1] = id[1] /\ k[2] = id[2]

\* the socket addresses an object gives to the cluster name k: the addresses
\* of every subset containing a port so named, at that subset's port number
OwnAddresses(ep, k) ==
    UNION { { <<s.addresses[i].ip, s.ports[j].port>> :
                <<i, j>> \in {ij \in (DOMAIN s.addresses) \X (DOMAIN s.ports) :
                    /\ s.ports[ij[2]].name \in KeyPortNames(ep)
                    /\ servicename(ExcludeNamespaceFromServiceName, ep,
                                   s.ports[ij[2]].name) = k} } :
            s \in Range(ep.subsets) }

\* the socket addresses all tracked objects but id give to the cluster name k
OthersAddresses(id, k) ==
    UNION { OwnAddresses(endpoints[x], k) : x \in DOMAIN endpoints \ {id} }

\* C1 as stated: a key is in the cache iff its member list is not empty, and
\* after processing an Endpoints object with zero addresses in total no key
\* derived from its (namespace, name) is left.
C1_ScaleToZeroLeavesNoKey ==
    /\ \A k \in DOMAIN cache : cache[k] # {}
    /\ (IsEpAddOrUpdate /\ TotalAddresses(ev.new) = 0) =>
          \A k \in DOMAIN cache : ~DerivedFrom(k, Identity(ev.new))

\* C1 as amended: a key is in the cache iff its member list is not empty, and
\* after processing an Endpoints object with zero addresses in total the only
\* keys derived from its (namespace, name) that are left are, in
\* namespace-excluded mode, keys that another tracked object gives addresses.
C1_ScaleToZeroLeavesNoOwnKey ==
    /\ \A k \in DOMAIN cache : cache[k] # {}
    /\ (IsEpAddOrUpdate /\ TotalAddresses(ev.new) = 0) =>
          \A k \in DOMAIN cache :
              DerivedFrom(k, Identity(ev.new)) =>
                  /\ ExcludeNamespaceFromServiceName
                  /\ AddressesOf(cache[k]) = OthersAddresses(Identity(ev.new), k)
                  /\ OthersAddresses(Identity(ev.new), k) # {}

\* an update from some addresses to none has removed the object's keys
C1_Witness ==
    /\ ev.op = "EpOnUpdate"
    /\ TotalAddresses(ev.old) > 0
    /\ TotalAddresses(ev.new) = 0
    /\ \E k \in DOMAIN preCache : DerivedFrom(k, Identity(ev.new))
    /\ \A k \in DOMAIN cache : ~DerivedFrom(k, Identity(ev.new))

\* C2: with namespace exclusion, the membership of every key is the union of
\* what all tracked Endpoints objects mapping to it contribute; deleting one
\* of two contributors leaves exactly the other's addresses.
C2_MergedKeyIsUnionOfContributors ==
    ExcludeNamespaceFromServiceName =>
        \A k \in DOMAIN cache
                 \cup UNION {Keys(TRUE, endpoints[id]) : id \in DOMAIN endpoints} :
            AddressesOf(CacheAt(cache, k)) =
                UNION {OwnAddresses(endpoints[id], k) : id \in DOMAIN endpoints}

\* staging/simple deleted from a key it shared with prod/simple
C2_Witness ==
    /\ ExcludeNamespaceFromServiceName
    /\ ev.op = "EpOnDelete"
    /\ ev.old = eps("staging", "simple", SimpleSubsets)
    /\ DOMAIN endpoints = {<<"prod", "simple">>}
    /\ endpoints[<<"prod", "simple">>] = eps("prod", "simple", OtherSubsets)
    /\ AddressesOf(CacheAt(preCache, <<"simple">>)) =
          {<<"192.168.183.24", 8080>>, <<"192.168.183.25", 8080>>}
    /\ AddressesOf(CacheAt(cache, <<"simple">>)) = {<<"192.168.183.25", 8080>>}

\* C8 as stated: OnAdd(e) followed by OnDelete(e) returns the cache to the
\* state it had before the OnAdd.
C8_AddThenDeleteRestoresCache ==
    beforeAdd.valid => cache = beforeAdd.cache

\* C8 as amended: OnAdd(e) followed by OnDelete(e) returns the cache to the
\* keys and member addresses it had before the OnAdd, and leaves every key e
\* does not map to exactly as it was; in namespace-excluded mode the members
\* of a key e shares with another object may come back with other weights.
C8_AddThenDeleteRestoresMembership ==
    beforeAdd.valid =>
        /\ DOMAIN cache = DOMAIN beforeAdd.cache
        /\ \A k \in DOMAIN cache :
              /\ AddressesOf(cache[k]) = AddressesOf(beforeAdd.cache[k])
              /\ (~ExcludeNamespaceFromServiceName
                    \/ k \notin Keys(ExcludeNamespaceFromServiceName, ev.old)) =>
                        cache[k] = beforeAdd.cache[k]

\* an object with addresses added to and deleted from a cache that held others
C8_Witness ==
    /\ beforeAdd.valid
    /\ TotalAddresses(ev.old) > 0
    /\ beforeAdd.cache # << >>
    /\ preCache # beforeAdd.cache
    /\ cache = beforeAdd.cache

\* C9: an event for the Endpoints (namespace, name) X does not change the
\* cached value of a key whose only contributors are other objects, unless,
\* in namespace-excluded mode, X maps to that key too.
C9_EventLeavesOtherKeysAlone ==
    IsEpEvent =>
        LET X    == Identity(IF ev.new # NilObj THEN ev.new ELSE ev.old)
            excl == ExcludeNamespaceFromServiceName
        IN  \A k \in DOMAIN preCache :
                (/\ OthersAddresses(X, k) # {}
                 /\ ev.old # NilObj => OwnAddresses(ev.old, k) = {}
                 /\ ~(excl /\ k \in Keys(excl, ev.old) \cup Keys(excl, ev.new))) =>
                    /\ k \in DOMAIN cache
                    /\ cache[k] = preCache[k]

\* staging/different deleted while staging/simple holds a key of its own,
\* whose member still carries the weight of before node1 was weighted
C9_Witness ==
    /\ ~ExcludeNamespaceFromServiceName
    /\ ev.op = "EpOnDelete"
    /\ Identity(ev.old) = <<"staging", "different">>
    /\ <<"staging", "simple">> \in DOMAIN cache
    /\ cache[<<"staging", "simple">>] = {lbendpoint("192.168.183.24", 8080, 1)}
    /\ GetNodeWeight("node1") = 5
    /\ preCache # cache

\* the port names of an object that are not empty
NamedPorts(ep) == PortNames(ep) \ {""}

\* the object has one port in all, and it has no name
SingleUnnamedPort(ep) ==
    /\ PortNames(ep) = {""}
    /\ Cardinality(UNION { {<<i, j>> : j \in DOMAIN ep.subsets[i].ports} :
                             i \in DOMAIN ep.subsets }) = 1

\* the number of segments of a cluster name without port suffix
PrefixLen == IF ExcludeNamespaceFromServiceName THEN 1 ELSE 2

\* C10 as stated: an Endpoints object with N >= 2 distinctly named ports
\* yields exactly N cache keys, one per port name and each suffixed with it,
\* whose members are the addresses of every subset containing that port name
\* at that subset's port number; an object with a single unnamed port yields
\* exactly one key without a port suffix.
C10_PortFanOut ==
    IsEpAddOrUpdate =>
        LET e    == ev.new
            excl == ExcludeNamespaceFromServiceName
            key(n) == servicename(excl, e, n)
            derived == {k \in DOMAIN cache : DerivedFrom(k, Identity(e))}
        IN  /\ Cardinality(NamedPorts(e)) >= 2 =>
                  /\ \A n \in NamedPorts(e) :
                        /\ key(n) \in DOMAIN cache
                        /\ Len(key(n)) = PrefixLen + 1
                        /\ key(n)[Len(key(n))] = n
                        /\ AddressesOf(cache[key(n)]) = OwnAddresses(e, key(n))
                  /\ Cardinality({key(n) : n \in NamedPorts(e)}) = Cardinality(NamedPorts(e))
                  /\ ~excl => derived = {key(n) : n \in NamedPorts(e)}
            /\ SingleUnnamedPort(e) =>
                  /\ key("") \in DOMAIN cache
                  /\ Len(key("")) = PrefixLen
                  /\ ~excl => derived = {key("")}

\* C10 as amended: an Endpoints object with N >= 2 distinctly named ports
\* yields one cache key per port name that has an address in a subset
\* containing it (N keys when every port name has one), each suffixed with
\* the port name, whose members are the addresses of every subset containing
\* that port name at that subset's port number, together with, in
\* namespace-excluded mode, what other tracked objects give the same key; an
\* object with a single unnamed port yields one key without a port suffix
\* when it has an address and none when it has not.
C10_PortFanOutOfPortsWithAddresses ==
    IsEpAddOrUpdate =>
        LET e    == ev.new
            X    == Identity(e)
            excl == ExcludeNamespaceFromServiceName
            key(n) == servicename(excl, e, n)
            names == IF SingleUnnamedPort(e) THEN {""} ELSE NamedPorts(e)
            live  == {n \in names : OwnAddresses(e, key(n)) # {}}
            derived == {k \in DOMAIN cache : DerivedFrom(k, X)}
        IN  (Cardinality(NamedPorts(e)) >= 2 \/ SingleUnnamedPort(e)) =>
              /\ \A n \in names :
                    /\ Len(key(n)) = IF n = "" THEN PrefixLen ELSE PrefixLen + 1
                    /\ n # "" => key(n)[Len(key(n))] = n
                    /\ n \in live => key(n) \in DOMAIN cache
                    /\ AddressesOf(CacheAt(cache, key(n))) =
                          OwnAddresses(e, key(n)) \cup OthersAddresses(X, key(n))
                    /\ ~excl => OthersAddresses(X, key(n)) = {}
              /\ Cardinality({key(n) : n \in live}) = Cardinality(live)
              /\ ~excl => derived = {key(n) : n \in live}

\* TestAddEndpointComplicated: two port names over three subsets, two keys
C10_Witness ==
    /\ ~ExcludeNamespaceFromServiceName
    /\ ev.op = "EpOnAdd"
    /\ ev.new = eps("staging", "simple", ComplicatedSubsets)
    /\ {k \in DOMAIN cache : DerivedFrom(k, <<"staging", "simple">>)} =
          {<<"staging", "simple", "foo">>, <<"staging", "simple", "admin">>}
    /\ AddressesOf(cache[<<"staging", "simple", "foo">>]) =
          {<<"192.168.183.24", 9999>>, <<"192.168.183.25", 8080>>}
    /\ AddressesOf(cache[<<"staging", "simple", "admin">>]) =
          {<<"192.168.183.24", 9000>>, <<"192.168.183.25", 9000>>}

(***************************************************************************)
(* Further claims about NodeWeightCache, checked under SpecNode            *)
(***************************************************************************)
\* C11: OnUpdate(old, new) for a node name that is not tracked is ignored: no
\* entry is created, no stored weight changes, the observer is not invoked,
\* and GetNodeWeight for that name stays at the default weight.
C11_UpdateOfUntrackedIsIgnored ==
    (/\ ev.op = "NodeOnUpdate"
     /\ ev.old.kind = "Node"
     /\ ev.new.kind = "Node"
     /\ ev.old.name \notin DOMAIN preNodeWeights) =>
        /\ nodeWeights = preNodeWeights
        /\ ev.old.name \notin DOMAIN nodeWeights
        /\ fired = << >>
        /\ GetNodeWeight(ev.old.name) = DefaultNodeWeight

\* an update carrying a valid weight for a node that is not tracked, with an
\* observer registered and another node tracked
C11_Witness ==
    /\ IsNodeUpdate
    /\ ev.old.name \notin DOMAIN preNodeWeights
    /\ ev.new.annotations = (NodeWeightAnnotation :> <<"5">>)
    /\ nodeWeightsChangedHandler # Nil
    /\ DOMAIN nodeWeights # {}
    /\ DefaultNodeWeight # 5
    /\ GetNodeWeight(ev.old.name) = DefaultNodeWeight

\* C15: OnDelete of a DeletedFinalStateUnknown wrapper carrying node n leaves
\* the store and the observer exactly as OnDelete(n) leaves them from the
\* same prior state.
C15_TombstoneDeleteIsDelete ==
    [][ (/\ ev'.op = "NodeOnDelete"
         /\ ev'.old.kind = "DeletedFinalStateUnknown"
         /\ ev'.old.obj.kind = "Node") => NodeOnDeleteEffect(ev'.old.obj) ]_vars

\* a wrapper carrying a tracked node has been deleted, an observer registered
C15_Witness ==
    /\ ev.op = "NodeOnDelete"
    /\ ev.old.kind = "DeletedFinalStateUnknown"
    /\ ev.old.obj.kind = "Node"
    /\ ev.old.obj.name \in DOMAIN preNodeWeights
    /\ ev.old.obj.name \notin DOMAIN nodeWeights
    /\ nodeWeightsChangedHandler # Nil
    /\ fired = << >>

\* the node names a caller may ask for: absent, empty, or any node's
AskedNames == NodeNames \cup {"", Nil}

\* C13: GetNodeWeight returns the stored weight for a name that is given and
\* tracked, and the default weight for an absent name, the empty name and any
\* name that is not tracked, after any sequence of Add/Update/Delete events.
C13_GetNodeWeight ==
    /\ \A n \in AskedNames :
          GetNodeWeight(n) = IF n \in DOMAIN nodeWeights \ {Nil, ""}
                             THEN nodeWeights[n]
                             ELSE DefaultNodeWeight
    /\ GetNodeWeight(Nil) = DefaultNodeWeight
    /\ GetNodeWeight("") = DefaultNodeWeight
    /\ IsNodeAdd => GetNodeWeight(ev.new.name) = Resolved(ev.new)
    /\ IsNodeDelete => GetNodeWeight(ev.old.name) = DefaultNodeWeight

\* node1 tracked at a weight of its own, node2 just deleted
C13_Witness ==
    /\ IsNodeDelete
    /\ ev.old.name = "node2"
    /\ "node2" \in DOMAIN preNodeWeights
    /\ preNodeWeights["node2"] # DefaultNodeWeight
    /\ DefaultNodeWeight = 1
    /\ GetNodeWeight("node1") = 5
    /\ GetNodeWeight("node2") = 1
    /\ GetNodeWeight(Nil) = 1

(***************************************************************************)
(* Claims about the weight resolution, checked under SpecClamp             *)
(***************************************************************************)
\* the annotation spells out an integer of the accepted range
SpellsAccepted(annotations) ==
    /\ NodeWeightAnnotation \in DOMAIN annotations
    /\ \E n \in 0..128 : annotations[NodeWeightAnnotation] = Decimal(n)

\* the weight the clamp rule gives an annotation map
ClampRule(annotations) ==
    IF SpellsAccepted(annotations)
    THEN CHOOSE n \in 0..128 : annotations[NodeWeightAnnotation] = Decimal(n)
    ELSE DefaultNodeWeight

\* an OnAdd, or an OnUpdate of a tracked node, has just resolved ev.new
IsResolvingEvent ==
    \/ IsNodeAdd
    \/ IsNodeUpdate /\ ev.old.name \in DOMAIN preNodeWeights

\* C12: the weight resolved on Add/Update is the annotation's integer when it
\* parses and lies in [0, 128], and the default weight when the annotation is
\* missing, unparsable or out of range; no out-of-range value is ever stored.
C12_WeightClamp ==
    /\ IsResolvingEvent => nodeWeights[ev.new.name] = ClampRule(ev.new.annotations)
    /\ \A n \in DOMAIN nodeWeights : nodeWeights[n] \in 0..128

\* a node stored at the upper bound, then updated to one above it
C12_Witness ==
    /\ IsNodeUpdate
    /\ ev.old.name \in DOMAIN preNodeWeights
    /\ preNodeWeights[ev.old.name] = 128
    /\ ev.new.annotations = (NodeWeightAnnotation :> <<"1", "2", "9">>)
    /\ nodeWeights[ev.old.name] = DefaultNodeWeight

\* C14: the clamp is not sticky: a tracked node stored at the default takes
\* the value of the next OnUpdate carrying a valid annotation, and a tracked
\* node returns to the default on the next OnUpdate carrying an unparsable,
\* out-of-range or missing annotation.
C14_ClampIsNotSticky ==
    (IsNodeUpdate /\ ev.old.name \in DOMAIN preNodeWeights) =>
        /\ (preNodeWeights[ev.old.name] = DefaultNodeWeight
                /\ SpellsAccepted(ev.new.annotations)) =>
              Decimal(nodeWeights[ev.old.name]) = ev.new.annotations[NodeWeightAnnotation]
        /\ ~SpellsAccepted(ev.new.annotations) =>
              nodeWeights[ev.old.name] = DefaultNodeWeight

\* a node stored at a valid weight other than the default, updated without
\* the annotation
C14_Witness ==
    /\ IsNodeUpdate
    /\ ev.old.name \in DOMAIN preNodeWeights
    /\ preNodeWeights[ev.old.name] = 127
    /\ ev.new.annotations = << >>
    /\ nodeWeights[ev.old.name] = DefaultNodeWeight

(***************************************************************************)
(* Claims about objects of an unexpected kind, checked under SpecKinds     *)
(***************************************************************************)
\* a NodeWeightCache handler has just been given an object that is no Node
\* (and, for OnDelete, no DeletedFinalStateUnknown either)
IsWrongKindNodeEvent ==
    \/ ev.op = "NodeOnAdd" /\ ev.new.kind # "Node"
    \/ ev.op = "NodeOnUpdate" /\ (ev.old.kind # "Node" \/ ev.new.kind # "Node")
    \/ ev.op = "NodeOnDelete" /\ ev.old.kind \notin {"Node", "DeletedFinalStateUnknown"}

\* an EndpointsTranslator handler has just been given an object that is no
\* Endpoints
IsWrongKindEpEvent ==
    \/ ev.op = "EpOnAdd" /\ ev.new.kind # "Endpoints"
    \/ ev.op = "EpOnUpdate" /\ (ev.old.kind # "Endpoints" \/ ev.new.kind # "Endpoints")
    \/ ev.op = "EpOnDelete" /\ ev.old.kind # "Endpoints"

\* C16: an object of an unexpected kind delivered to a NodeWeightCache
\* handler, or to an EndpointsTranslator handler, leaves every stored weight
\* and every cached entry unchanged and does not invoke the observer.
C16_UnexpectedKindIsDropped ==
    (IsWrongKindNodeEvent \/ IsWrongKindEpEvent) =>
        /\ nodeWeights = preNodeWeights
        /\ fired = << >>
        /\ cache = preCache

\* an update of a tracked node whose new object is no Node, with an observer
\* registered and entries cached
C16_Witness ==
    /\ ev.op = "NodeOnUpdate"
    /\ ev.old \in WeightedNodes
    /\ ev.new = NotANode
    /\ ev.old.name \in DOMAIN nodeWeights
    /\ nodeWeights[ev.old.name] # DefaultNodeWeight
    /\ nodeWeightsChangedHandler # Nil
    /\ cache # << >>

(***************************************************************************)
(* Claims about weights in the translator's cache, checked under Spec      *)
(***************************************************************************)
\* the weight field an address is emitted with: absent for weight 1
EmittedWeight(a) ==
    LET W == GetNodeWeight(a.nodeName)
    IN  IF W = 1 THEN {} ELSE {W}

\* address, port and weight field of what an object gives the cluster name k
OwnWeighted(ep, k) ==
    UNION { { <<s.addresses[ij[1]].ip, s.ports[ij[2]].port,
                EmittedWeight(s.addresses[ij[1]])>> :
                ij \in {x \in (DOMAIN s.addresses) \X (DOMAIN s.ports) :
                          /\ s.ports[x[2]].name \in KeyPortNames(ep)
                          /\ servicename(ExcludeNamespaceFromServiceName, ep,
                                         s.ports[x[2]].name) = k} } :
            s \in Range(ep.subsets) }

\* the keys the last Endpoints event has recomputed
Recomputed ==
    Keys(ExcludeNamespaceFromServiceName, ev.old)
      \cup Keys(ExcludeNamespaceFromServiceName, ev.new)

\* C17: when a key is recomputed, an address whose node has the tracked weight
\* W # 1 is emitted with the weight field W, and an address of weight 1,
\* tracked or by default, is emitted without the weight field.
C17_WeightPropagationAndOmission ==
    IsEpEvent =>
        \A k \in Recomputed :
            {<<m.address, m.port, m.loadBalancingWeight>> : m \in CacheAt(cache, k)} =
                UNION {OwnWeighted(endpoints[id], k) : id \in DOMAIN endpoints}

\* a recomputed key holding an address of a node weighted 5, emitted with the
\* field, and an address without a node, emitted without it
C17_Witness ==
    /\ IsEpAddOrUpdate
    /\ GetNodeWeight("node1") = 5
    /\ <<"staging", "simple", "admin">> \in Recomputed
    /\ CacheAt(cache, <<"staging", "simple", "admin">>) =
          { [address |-> "192.168.183.24", port |-> 9000, loadBalancingWeight |-> {5}],
            [address |-> "192.168.183.25", port |-> 9000, loadBalancingWeight |-> {}] }

\* a NodeWeightCache handler has just run
IsNodeEvent == ev.op \in {"NodeOnAdd", "NodeOnUpdate", "NodeOnDelete"}

\* C18: a cached weight is the node's weight as of the last recompute of its
\* key: a recompute gives every member of the keys it touches the current
\* weight of its node and leaves the other keys as they were, and an OnAdd,
\* OnUpdate or OnDelete of a Node leaves every cached entry unchanged.
C18_WeightsAreAsOfLastRecompute ==
    /\ IsNodeEvent => cache = preCache
    /\ IsEpEvent =>
          /\ \A k \in DOMAIN cache \ Recomputed :
                k \in DOMAIN preCache /\ cache[k] = preCache[k]
          /\ \A k \in DOMAIN preCache \ Recomputed : k \in DOMAIN cache
          /\ \A k \in Recomputed : \A m \in CacheAt(cache, k) :
                \E id \in DOMAIN endpoints :
                    <<m.address, m.port, m.loadBalancingWeight>>
                        \in OwnWeighted(endpoints[id], k)

\* the node weighted 5 has been deleted, and the address it owns is still
\* cached with the weight 5
C18_Witness ==
    /\ IsNodeDelete
    /\ ev.old.name = "node1"
    /\ "node1" \in DOMAIN preNodeWeights
    /\ preNodeWeights["node1"] = 5
    /\ GetNodeWeight("node1") = 1
    /\ <<"staging", "simple">> \in DOMAIN cache
    /\ cache[<<"staging", "simple">>] =
          { [address |-> "192.168.183.24", port |-> 8080, loadBalancingWeight |-> {5}] }

(***************************************************************************)
(* Claims about concurrent use of NodeWeightCache, checked under SpecRace  *)
(***************************************************************************)
\* C20: GetNodeWeight called from a serving goroutine concurrently with OnAdd,
\* OnUpdate or OnDelete is protected by mutual exclusion: no interleaving
\* lets its read of the nodeWeights map overlap a write of the map.
C20_NoReadWriteRace ==
    ~(nwReader.pc = "reading" /\ nwWriter.pc = "writing")

IsUntrackedNodeDeleteStep ==
    /\ ev'.op = "NodeOnDelete"
    /\ ev'.old.kind = "Node"
    /\ ev'.old.name \notin DOMAIN nodeWeights

\* the step is an OnDelete of an Endpoints object that is not tracked
IsUntrackedEpDeleteStep ==
    /\ ev'.op = "EpOnDelete"
    /\ Identity(ev'.old) \notin DOMAIN endpoints

\* the step repeats the OnDelete that has just been applied
IsRepeatedDeleteStep ==
    /\ ev'.op \in {"NodeOnDelete", "EpOnDelete"}
    /\ ev' = ev

IsRepeatedNodeDeleteStep == IsRepeatedDeleteStep /\ ev'.op = "NodeOnDelete"

IsRepeatedEpDeleteStep == IsRepeatedDeleteStep /\ ev'.op = "EpOnDelete"

\* the step leaves the keys and the member addresses of the cache as they
\* were, and every key the deleted object does not share exactly as it was
KeepsMembership ==
    /\ endpoints' = endpoints
    /\ DOMAIN cache' = DOMAIN cache
    /\ \A k \in DOMAIN cache :
          /\ AddressesOf(cache'[k]) = AddressesOf(cache[k])
          /\ (~ExcludeNamespaceFromServiceName
                \/ k \notin Keys(ExcludeNamespaceFromServiceName, ev'.old)) =>
                    cache'[k] = cache[k]

C22_SingleObserverSlot ==
    [][ /\ Len(fired') <= 1
        /\ \A i \in DOMAIN fired' : fired'[i] = nodeWeightsChangedHandler'
        /\ ev'.op = "Register" =>
              \E h \in Handlers : /\ registered' = registered \cup {h}
                                  /\ nodeWeightsChangedHandler' = h
        /\ ev'.op # "Register" =>
              /\ nodeWeightsChangedHandler' = nodeWeightsChangedHandler
              /\ registered' = registered ]_vars

\* A and B have both been registered, B last, and a weight change has
\* invoked B alone
C22_Witness ==
    /\ registered = {"A", "B"}
    /\ nodeWeightsChangedHandler = "B"
    /\ ev.op \in {"NodeOnAdd", "NodeOnUpdate"}
    /\ nodeWeights # preNodeWeights
    /\ fired = <<"B">>

(***************************************************************************)
(* Specification of the members the translator emits: two objects that     *)
(* share their name and an address, one of them listing that address in    *)
(* two subsets, and the node of that address annotated with weights at and *)
(* around the bounds of the accepted range.  An address names the node its *)
(* pod runs on, so an IP always comes with the same node name.             *)
(***************************************************************************)
\* the same address in two subsets under the same (unnamed) port
DuplicateSubsets ==
    << Subset(<<address("192.168.183.24", "node1")>>, <<port(8080, "")>>),
       Subset(<<address("192.168.183.24", "node1"), address("192.168.183.25", Nil)>>,
              <<port(8080, "")>>) >>

MembersEndpoints ==
    {eps("staging", "simple", ss) : ss \in {SimpleSubsets, DuplicateSubsets}}
      \cup {eps("prod", "simple", ss) : ss \in {SimpleSubsets, OtherSubsets}}

\* the weights node1 is annotated with
MembersWeights == {0 - 1, 0, 5, 128, 129}

MembersNodes ==
    {Node("node1", << >>)}
      \cup {Node("node1", (NodeWeightAnnotation :> Decimal(n))) : n \in MembersWeights}

NextMembers ==
    \/ \E ep \in MembersEndpoints :
          /\ Identity(ep) \notin DOMAIN endpoints
          /\ EpOnAdd(ep)
    \/ \E new \in MembersEndpoints :
          /\ Identity(new) \in DOMAIN endpoints
          /\ EpOnUpdate(endpoints[Identity(new)], new)
    \/ \E ep \in MembersEndpoints :
          /\ Identity(ep) \in DOMAIN endpoints
          /\ EpOnDelete(endpoints[Identity(ep)])
    \/ \E obj \in MembersNodes : NodeOnAdd(obj)
    \/ \E new \in MembersNodes : NodeOnUpdate(Node("node1", << >>), new)
    \/ NodeOnDelete(Node("node1", << >>))

SpecMembers == Init /\ [][NextMembers]_vars

(***************************************************************************)
(* Claims about the emitted members, checked under SpecMembers             *)
(***************************************************************************)
\* the weights the cached members carry explicitly
EmittedWeights ==
    UNION {m.loadBalancingWeight : m \in UNION {cache[k] : k \in DOMAIN cache}}

\* C23: with default weight 1, every cached LbEndpoint either omits the weight
\* field or carries a weight from 2 to 128: none carries a weight that is
\* zero, negative or above 128.
C23_EmittedWeightsArePositive ==
    DefaultNodeWeight = 1 => \A w \in EmittedWeights : w >= 2 /\ w <= MaxWeight

ReplayNodes ==
    {Node(n, a) : n \in {"node1", "node2"},
                  a \in {<< >>} \cup {(NodeWeightAnnotation :> Decimal(w)) : w \in {5, 129}}}

ReplayEndpoints ==
    {eps("staging", "simple", ss) : ss \in {SimpleSubsets, ComplicatedSubsets}}
      \cup {eps("prod", "simple", ss) : ss \in {ComplicatedSubsets}}

\* the watch layer's store after the event
WatchedAfter(op, old, new) ==
    CASE op = "NodeOnAdd" ->
           [watched EXCEPT !.nodes = MapSet(watched.nodes, new.name, new)]
      [] op = "NodeOnUpdate" ->
           [watched EXCEPT !.nodes = MapSet(watched.nodes, new.name, new)]
      [] op = "NodeOnDelete" ->
           [watched EXCEPT !.nodes = MapDelete(watched.nodes, old.name)]
      [] op = "EpOnAdd" ->
           [watched EXCEPT !.endpoints = MapSet(watched.endpoints, Identity(new), new)]
      [] op = "EpOnUpdate" ->
           [watched EXCEPT !.endpoints = MapSet(watched.endpoints, Identity(new), new)]
      [] op = "EpOnDelete" ->
           [watched EXCEPT !.endpoints = MapDelete(watched.endpoints, Identity(old))]

\* the watch layer records the event and calls the handler for it
Deliver(op, old, new) ==
    /\ watched' = WatchedAfter(op, old, new)
    /\ CASE op = "NodeOnAdd" -> setWeight(new) /\ UNCHANGED <<endpoints, cache>>
         [] op = "NodeOnUpdate" -> updateWeight(old, new) /\ UNCHANGED <<endpoints, cache>>
         [] op = "NodeOnDelete" -> NodeOnDeleteEffect(old) /\ UNCHANGED <<endpoints, cache>>
         [] op \in {"EpOnAdd", "EpOnUpdate", "EpOnDelete"} ->
              recomputeClusterLoadAssignment(old, new) /\ NodeEffect(nodeWeights, << >>)
    /\ ev' = [op |-> op, old |-> old, new |-> new]
    /\ preCache' = cache
    /\ preNodeWeights' = nodeWeights
    /\ beforeAdd' = NoAddBefore
    /\ UNCHANGED <<nodeWeightsChangedHandler, registered, DefaultNodeWeight,
                   ExcludeNamespaceFromServiceName, concVars, providerWeights>>

NextReplay ==
    \/ \E obj \in ReplayNodes :
          /\ obj.name \notin DOMAIN watched.nodes
          /\ Deliver("NodeOnAdd", NilObj, obj)
    \/ \E new \in ReplayNodes :
          /\ new.name \in DOMAIN watched.nodes
          /\ Deliver("NodeOnUpdate", watched.nodes[new.name], new)
    \/ \E n \in DOMAIN watched.nodes : Deliver("NodeOnDelete", watched.nodes[n], NilObj)
    \/ \E ep \in ReplayEndpoints :
          /\ Identity(ep) \notin DOMAIN watched.endpoints
          /\ Deliver("EpOnAdd", NilObj, ep)
    \/ \E new \in ReplayEndpoints :
          /\ Identity(new) \in DOMAIN watched.endpoints
          /\ Deliver("EpOnUpdate", watched.endpoints[Identity(new)], new)
    \/ \E id \in DOMAIN watched.endpoints :
          Deliver("EpOnDelete", watched.endpoints[id], NilObj)

SpecReplay == Init /\ [][NextReplay]_vars

(***************************************************************************)
(* Claims about replay, checked under SpecReplay                           *)
(***************************************************************************)
\* the store of a fresh NodeWeightCache after OnAdd of the latest version of
\* every live Node
ReplayedStore ==
    [n \in DOMAIN watched.nodes |->
        getWeightFromAnnotation(watched.nodes[n].annotations, NodeWeightAnnotation,
                                DefaultNodeWeight)]

\* the cache of a fresh translator after OnAdd of the live Endpoints objects
\* ids, one after the other, with the node weights as they are now
RECURSIVE ReplayedFrom(_, _, _)
ReplayedFrom(ids, records, cch) ==
    IF ids = {} THEN cch
    ELSE LET id == CHOOSE i \in ids : TRUE
             ep == watched.endpoints[id]
         IN  ReplayedFrom(ids \ {id}, RecomputeRecords(records, NilObj, ep),
                          RecomputeCache(ExcludeNamespaceFromServiceName, nodeWeights,
                                         DefaultNodeWeight, records, cch, NilObj, ep))

ReplayedCache == ReplayedFrom(DOMAIN watched.endpoints, << >>, << >>)

\* C25 as stated: after a well-formed event sequence the NodeWeightCache store
\* is the one a fresh cache gets from OnAdd of the latest version of every
\* live Node, and the translator cache is the one a fresh translator gets
\* from OnAdd of every live Endpoints object with the same node weights.
C25_CachesEqualReplay ==
    /\ nodeWeights = ReplayedStore
    /\ cache = ReplayedCache

\* C25 as amended: the NodeWeightCache store is the replayed one, and the
\* translator cache has the keys of the replayed one and, under every key,
\* its member addresses and ports; the member weights are those that were
\* current when the key was last rebuilt.
C25_CachesEqualReplayUpToWeights ==
    /\ nodeWeights = ReplayedStore
    /\ DOMAIN cache = DOMAIN ReplayedCache
    /\ \A k \in DOMAIN cache : AddressesOf(cache[k]) = AddressesOf(ReplayedCache[k])

\* two objects are live and merged, a node has been added, updated to
\* another weight and its sibling deleted, and the caches are the replayed ones
C25_Witness ==
    /\ ExcludeNamespaceFromServiceName
    /\ Cardinality(DOMAIN watched.endpoints) = 2
    /\ DOMAIN watched.nodes = {"node1"}
    /\ ev.op = "NodeOnDelete"
    /\ nodeWeights = ReplayedStore
    /\ nodeWeights["node1"] = 5
    /\ cache = ReplayedCache

(***************************************************************************)
(* Claims about the handlers and the recompute, checked under Spec         *)
(***************************************************************************)
\* the step is an Endpoints handler call
IsEpStep == ev'.op \in {"EpOnAdd", "EpOnUpdate", "EpOnDelete"}

\* C26: OnAdd(ep), OnUpdate(old, new) and OnDelete(ep) leave the records and
\* the cache as Recompute(nil, ep), Recompute(old, new) and Recompute(ep, nil)
\* do, and the same Recompute applied again right after the handler changes
\* neither, in both naming modes and with node weights.
C26_HandlersAreIdempotentRecompute ==
    [][ IsEpStep =>
          /\ endpoints' = RecomputeRecords(endpoints, ev'.old, ev'.new)
          /\ cache' = RecomputeCache(ExcludeNamespaceFromServiceName, nodeWeights,
                                     DefaultNodeWeight, endpoints, cache,
                                     ev'.old, ev'.new)
          /\ RecomputeRecords(endpoints', ev'.old, ev'.new) = endpoints'
          /\ RecomputeCache(ExcludeNamespaceFromServiceName, nodeWeights',
                            DefaultNodeWeight, endpoints', cache',
                            ev'.old, ev'.new) = cache' ]_vars

\* in namespace-excluded mode an OnDelete has taken one of two merged objects
\* out of a key that stays, with node1 weighted 5
C26_Witness ==
    /\ ExcludeNamespaceFromServiceName
    /\ ev.op = "EpOnDelete"
    /\ "node1" \in DOMAIN nodeWeights
    /\ nodeWeights["node1"] = 5
    /\ cache # preCache
    /\ \E k \in Keys(ExcludeNamespaceFromServiceName, ev.old) :
          k \in DOMAIN cache /\ k \in DOMAIN preCache

(***************************************************************************)
(* Further claims about NodeWeightCache, checked under SpecNode            *)
(***************************************************************************)
\* the name under which the last OnAdd or OnUpdate stores
StoredName == IF ev.op = "NodeOnAdd" THEN ev.new.name ELSE ev.old.name

\* C27: the observer runs inside the OnAdd or OnUpdate that changed the store
\* and before it returns: when the handler is done the callback has run, it
\* ran once, and it ran after the write, so the store it found is the store
\* the handler leaves and a GetNodeWeight made from inside it returns the
\* new weight.
C27_ObserverRunsInlineAfterWrite ==
    /\ Len(observed) = Len(fired)
    /\ fired # << >> =>
          /\ ev.op \in {"NodeOnAdd", "NodeOnUpdate"}
          /\ nodeWeights # preNodeWeights
    /\ (/\ ev.op \in {"NodeOnAdd", "NodeOnUpdate"}
        /\ nodeWeights # preNodeWeights
        /\ nodeWeightsChangedHandler # Nil) => fired = <<nodeWeightsChangedHandler>>
    /\ \A i \in DOMAIN observed :
          /\ observed[i] = nodeWeights
          /\ GetNodeWeightIn(observed[i], DefaultNodeWeight, StoredName) = Resolved(ev.new)

\* an OnUpdate has changed a tracked node's weight to 5 and the observer,
\* called from inside it, has read 5
C27_Witness ==
    /\ IsNodeUpdate
    /\ ev.old.name \in DOMAIN preNodeWeights
    /\ preNodeWeights[ev.old.name] # 5
    /\ fired = <<"A">>
    /\ Len(observed) = 1
    /\ GetNodeWeightIn(observed[1], DefaultNodeWeight, ev.old.name) = 5

\* C28: OnUpdate(old, new) neither adds nor removes a tracked name; when
\* old.Name differs from new.Name the weight computed from new's annotations
\* is stored under old.Name, and only if old.Name is tracked, while new.Name
\* is left as it was: untracked if it was untracked.
C28_UpdateKeepsTrackedNames ==
    ev.op = "NodeOnUpdate" =>
        /\ DOMAIN nodeWeights = DOMAIN preNodeWeights
        /\ (ev.old.kind = "Node" /\ ev.new.kind = "Node" /\ ev.old.name # ev.new.name) =>
              /\ IF ev.old.name \in DOMAIN preNodeWeights
                 THEN nodeWeights = MapSet(preNodeWeights, ev.old.name, Resolved(ev.new))
                 ELSE nodeWeights = preNodeWeights
              /\ ev.new.name \notin DOMAIN preNodeWeights =>
                    ev.new.name \notin DOMAIN nodeWeights

\* an update from a tracked name to an untracked one has changed the weight
\* stored under the old name
C28_Witness ==
    /\ ev.op = "NodeOnUpdate"
    /\ ev.old.kind = "Node"
    /\ ev.new.kind = "Node"
    /\ ev.old.name # ev.new.name
    /\ ev.old.name \in DOMAIN preNodeWeights
    /\ ev.new.name \notin DOMAIN nodeWeights
    /\ nodeWeights[ev.old.name] # preNodeWeights[ev.old.name]
    /\ nodeWeights[ev.old.name] = Resolved(ev.new)

(***************************************************************************)
(* Specification of the weight resolution under default weights inside and *)
(* outside the accepted range: the events of SpecClamp, the cache built    *)
(* with any of OutsideDefaults.                                            *)
(***************************************************************************)
\* default weights NewNodeWeightProvider is given: below, inside and above
\* the accepted range
OutsideDefaults == {0 - 5, 1, 200}

InitDefaults ==
    /\ nodeWeights = << >>
    /\ nodeWeightsChangedHandler = Nil
    /\ DefaultNodeWeight \in OutsideDefaults
    /\ fired = << >>
    /\ registered = {}
    /\ observed = << >>
    /\ ExcludeNamespaceFromServiceName = FALSE
    /\ endpoints = << >>
    /\ cache = << >>
    /\ preCache = << >>
    /\ preNodeWeights = << >>
    /\ beforeAdd = NoAddBefore
    /\ ev = [op |-> "New", old |-> NilObj, new |-> NilObj]
    /\ InitConc
    /\ watched = NothingWatched
    /\ providerWeights = << >>

SpecDefaults == InitDefaults /\ [][NextClamp]_vars

\* C29: every stored weight lies in [0, 128] or is the configured default
\* weight, which is itself not clamped, and so does every GetNodeWeight
\* result, for a tracked name, an untracked name and no name.
C29_StoredWeightsInRangeOrDefault ==
    /\ \A n \in DOMAIN nodeWeights :
          \/ nodeWeights[n] >= 0 /\ nodeWeights[n] <= MaxWeight
          \/ nodeWeights[n] = DefaultNodeWeight
    /\ \A n \in NodeNames \cup {Nil} :
          \/ GetNodeWeight(n) >= 0 /\ GetNodeWeight(n) <= MaxWeight
          \/ GetNodeWeight(n) = DefaultNodeWeight

\* the default weight is 200 and a node annotated 129 is stored at 200
C29_Witness ==
    /\ DefaultNodeWeight = 200
    /\ IsNodeAdd
    /\ ev.new.annotations = (NodeWeightAnnotation :> Decimal(129))
    /\ nodeWeights[ev.new.name] = 200
    /\ GetNodeWeight(ev.new.name) = 200

(***************************************************************************)
(* Claims about what does not notify, checked under SpecNode               *)
(***************************************************************************)
\* the last handler call has tracked a new name or changed a stored weight
StoreGainedOrChanged ==
    \E n \in DOMAIN nodeWeights :
        n \notin DOMAIN preNodeWeights \/ nodeWeights[n] # preNodeWeights[n]

ProviderGetNodeWeight(weights, defaultWeight, nodeName) ==
    IF nodeName # Nil /\ nodeName \in DOMAIN weights
    THEN weights[nodeName]
    ELSE defaultWeight

ProviderUpdateWeight(weights, defaultWeight, old, new) ==
    IF old.name \in DOMAIN weights
    THEN LET oldWeight == weights[old.name]
             newWeight == getWeightFromAnnotation(new.annotations, NodeWeightAnnotation,
                                                  defaultWeight)
         IN  IF oldWeight # newWeight
             THEN MapSet(weights, old.name, newWeight)
             ELSE weights
    ELSE weights

\* OnAdd leaving the weight of a node that is tracked already as it is
ProviderOnAddKeepsFirst(weights, defaultWeight, obj) ==
    IF obj.kind = "Node" /\ obj.name \notin DOMAIN weights
    THEN MapSet(weights, obj.name,
                getWeightFromAnnotation(obj.annotations, NodeWeightAnnotation, defaultWeight))
    ELSE weights

ProviderOnAdd(weights, defaultWeight, obj) ==
    IF obj.kind = "Node"
    THEN MapSet(weights, obj.name,
                getWeightFromAnnotation(obj.annotations, NodeWeightAnnotation, defaultWeight))
    ELSE weights

ProviderOnUpdate(weights, defaultWeight, oldObj, newObj) ==
    IF newObj.kind = "Node" /\ oldObj.kind = "Node"
    THEN ProviderUpdateWeight(weights, defaultWeight, oldObj, newObj)
    ELSE weights

RECURSIVE ProviderOnDelete(_, _)
ProviderOnDelete(weights, obj) ==
    CASE obj.kind = "Node" -> MapDelete(weights, obj.name)
      [] obj.kind = "DeletedFinalStateUnknown" -> ProviderOnDelete(weights, obj.obj)
      [] OTHER -> weights

(***************************************************************************)
(* Specification of the two node-weight stores run side by side: every     *)
(* event of SpecNode is handed to NodeWeightCache and to a                 *)
(* NodeWeightProvider built with the same annotation key and default       *)
(* weight; the observer exists on the NodeWeightCache side only.           *)
(***************************************************************************)
\* the event is handed to both stores
BothHandle(op, old, new) ==
    /\ CASE op = "NodeOnAdd" ->
              IF new.kind = "Node" THEN setWeight(new) ELSE NodeEffect(nodeWeights, << >>)
         [] op = "NodeOnUpdate" ->
              IF new.kind = "Node" /\ old.kind = "Node"
              THEN updateWeight(old, new)
              ELSE NodeEffect(nodeWeights, << >>)
         [] op = "NodeOnDelete" -> NodeOnDeleteEffect(old)
    /\ providerWeights' =
          CASE op = "NodeOnAdd" -> ProviderOnAdd(providerWeights, DefaultNodeWeight, new)
            [] op = "NodeOnUpdate" ->
                 ProviderOnUpdate(providerWeights, DefaultNodeWeight, old, new)
            [] op = "NodeOnDelete" -> ProviderOnDelete(providerWeights, old)
    /\ ev' = [op |-> op, old |-> old, new |-> new]
    /\ preCache' = cache
    /\ preNodeWeights' = nodeWeights
    /\ beforeAdd' = NoAddBefore
    /\ UNCHANGED <<nodeWeightsChangedHandler, registered, DefaultNodeWeight,
                   translatorVars, concVars, watched>>

NextBoth ==
    \/ \E h \in Handlers : RegisterOnNodeWeightsChanged(h)
    \/ \E obj \in NodeObjects \cup {NotANode} : BothHandle("NodeOnAdd", NilObj, obj)
    \/ \E old \in OldNodeObjects \cup {NotANode}, new \in NodeObjects \cup {NotANode} :
          BothHandle("NodeOnUpdate", old, new)
    \/ \E obj \in OldNodeObjects \cup {NotANode}
                    \cup {Tombstone(o) : o \in OldNodeObjects \cup {NotANode}} :
          BothHandle("NodeOnDelete", obj, NilObj)

SpecBoth == InitNode /\ [][NextBoth]_vars

\* C31: NodeWeightProvider and NodeWeightCache, given the same events with
\* the same annotation key and default weight, hold the same nodeWeights map
\* after every event and return the same GetNodeWeight result for every
\* node name and for no name.
C31_StoresAreEquivalent ==
    /\ providerWeights = nodeWeights
    /\ \A n \in NodeNames \cup {Nil} :
          ProviderGetNodeWeight(providerWeights, DefaultNodeWeight, n) = GetNodeWeight(n)

\* both stores track two nodes, an OnUpdate has just changed a weight in
\* both and invoked the observer of NodeWeightCache
C31_Witness ==
    /\ ev.op = "NodeOnUpdate"
    /\ Cardinality(DOMAIN providerWeights) = 2
    /\ providerWeights = nodeWeights
    /\ providerWeights # preNodeWeights
    /\ fired = <<"A">>

====
